---- MODULE Spec2Model ----
(***************************************************************************)
(* Clementine's CommandlineOptions (src/commandlineoptions.cpp):           *)
(*   - Parse(): the getopt_long scan loop, the switch over the returned    *)
(*     option, and the loop that collects file names / URLs;               *)
(*   - is_empty();                                                         *)
(*   - Serialize() / Load() through QDataStream operator<< / operator>>.   *)
(* Strings are sequences of one-character strings, so that getopt's        *)
(* scanning, QString::toInt, QString::contains and the byte encoding are   *)
(* computed rather than assumed.                                           *)
(***************************************************************************)
EXTENDS Integers, Sequences, FiniteSets, TLC

VARIABLES
  orig,          \* the argument list as passed to the constructor (argv[1..])
  argv,          \* argv_[1..argc_-1]; getopt_long permutes it in place
  optind,        \* getopt: index of the next argv element to scan
  nextchar,      \* getopt: position inside argv[optind] of the next short option, 0 if none
  first_nonopt,  \* getopt: start of the block of skipped non-options
  last_nonopt,   \* getopt: end (exclusive) of that block
  optarg,        \* getopt: argument of the option just returned
  option_index,  \* Parse's local, written by getopt_long for long options only
  c,             \* Parse's local: the value getopt_long returned last
  i,             \* the index of the URL loop
  pc,            \* position inside Parse, or inside the Serialize/Load exchange
  ret,           \* the value Parse returned
  out,           \* what was written to standard output
  opts,          \* the fields of the CommandlineOptions object
  buf,           \* the QByteArray Serialize returned
  wire,          \* the QByteArray handed to Load
  dst,           \* the fields of the object Load is called on
  status         \* the status of the QDataStream local to Load

vars == <<orig, argv, optind, nextchar, first_nonopt, last_nonopt, optarg,
          option_index, c, i, pc, ret, out, opts, buf, wire, dst, status>>

getoptVars == <<argv, optind, nextchar, first_nonopt, last_nonopt, optarg, option_index>>
codecVars == <<buf, wire, dst, status>>

(***************************************************************************)
(* Bounds of the model.                                                    *)
(***************************************************************************)
MaxArgs == 3
MaxUrls == 2

Min(a, b) == IF a < b THEN a ELSE b

(***************************************************************************)
(* The enums of the class and the constructor's defaults.                  *)
(***************************************************************************)
UrlList_Append == 0
UrlList_Load == 1
Player_None == 0
Player_Play == 1
Player_PlayPause == 2
Player_Pause == 3
Player_Stop == 4
Player_Previous == 5
Player_Next == 6

DefaultOptions ==
  [ url_list_action_ |-> UrlList_Append,
    player_action_   |-> Player_None,
    set_volume_      |-> -1,
    volume_modifier_ |-> 0,
    seek_to_         |-> -1,
    play_track_at_   |-> -1,
    show_osd_        |-> FALSE,
    urls_            |-> << >> ]

(***************************************************************************)
(* getopt_long's tables: the short option string and kOptions.             *)
(***************************************************************************)
optstring == <<"h","p","t","u","s","r","f","v",":","a","l","k",":","o">>

kOptions ==
  << [name |-> <<"h","e","l","p">>,                               has_arg |-> FALSE, val |-> "h"],
     [name |-> <<"p","l","a","y">>,                               has_arg |-> FALSE, val |-> "p"],
     [name |-> <<"p","l","a","y","-","p","a","u","s","e">>,       has_arg |-> FALSE, val |-> "t"],
     [name |-> <<"p","a","u","s","e">>,                           has_arg |-> FALSE, val |-> "u"],
     [name |-> <<"s","t","o","p">>,                               has_arg |-> FALSE, val |-> "s"],
     [name |-> <<"p","r","e","v","i","o","u","s">>,               has_arg |-> FALSE, val |-> "r"],
     [name |-> <<"n","e","x","t">>,                               has_arg |-> FALSE, val |-> "f"],
     [name |-> <<"v","o","l","u","m","e">>,                       has_arg |-> TRUE,  val |-> "v"],
     [name |-> <<"v","o","l","u","m","e","-","u","p">>,           has_arg |-> FALSE, val |-> "VolumeUp"],
     [name |-> <<"v","o","l","u","m","e","-","d","o","w","n">>,   has_arg |-> FALSE, val |-> "VolumeDown"],
     [name |-> <<"s","e","e","k","-","t","o">>,                   has_arg |-> TRUE,  val |-> "SeekTo"],
     [name |-> <<"a","p","p","e","n","d">>,                       has_arg |-> FALSE, val |-> "a"],
     [name |-> <<"l","o","a","d">>,                               has_arg |-> FALSE, val |-> "l"],
     [name |-> <<"p","l","a","y","-","t","r","a","c","k">>,       has_arg |-> TRUE,  val |-> "k"],
     [name |-> <<"s","h","o","w","-","o","s","d">>,               has_arg |-> FALSE, val |-> "o"] >>

(***************************************************************************)
(* getopt_long(argc_, argv_, "hptusrfv:alk:o", kOptions, &option_index)    *)
(* as the C library computes it in its default mode: non-options are       *)
(* skipped and later permuted behind the options, "--" ends the options,   *)
(* long options may be abbreviated to an unambiguous prefix and may carry  *)
(* their argument after '=', short options may be clustered and may carry  *)
(* their argument in the same element.  argc is Len(argv) + 1; argv[0] is  *)
(* the program name and is never read.                                     *)
(***************************************************************************)
NONOPTION_P(tok) == Len(tok) < 2 \/ tok[1] # "-"

RECURSIVE SkipNonOptions(_, _)
SkipNonOptions(av, k) ==
  IF k <= Len(av) /\ NONOPTION_P(av[k]) THEN SkipNonOptions(av, k + 1) ELSE k

\* av with the blocks [bottom, middle) and [middle, top) exchanged
exchange(av, bottom, middle, top) ==
  [k \in 1..Len(av) |->
     IF k < bottom \/ k >= top THEN av[k]
     ELSE IF k < bottom + (top - middle) THEN av[middle + (k - bottom)]
     ELSE av[k - (top - middle)]]

IsPrefix(n, full) == Len(n) <= Len(full) /\ SubSeq(full, 1, Len(n)) = n

RECURSIVE IndexOf(_, _, _)
IndexOf(s, ch, k) ==
  IF k > Len(s) THEN Len(s) + 1
  ELSE IF s[k] = ch THEN k ELSE IndexOf(s, ch, k + 1)

\* the step "advance to the next argv element" taken when no cluster is pending
NextElement(g) ==
  LET argc  == Len(g.argv) + 1
      ln0   == Min(g.last_nonopt, g.optind)
      fn0   == Min(g.first_nonopt, g.optind)
      ex1   == fn0 # ln0 /\ ln0 # g.optind
      av1   == IF ex1 THEN exchange(g.argv, fn0, ln0, g.optind) ELSE g.argv
      fn1   == IF ex1 THEN fn0 + (g.optind - ln0)
               ELSE IF ln0 # g.optind THEN g.optind ELSE fn0
      oi1   == SkipNonOptions(av1, g.optind)
      ln1   == oi1
      dd    == oi1 # argc /\ av1[oi1] = <<"-", "-">>
      oi2   == oi1 + 1
      ex2   == dd /\ fn1 # ln1 /\ ln1 # oi2
      av2   == IF ex2 THEN exchange(av1, fn1, ln1, oi2) ELSE av1
      fn2   == IF ex2 THEN fn1 + (oi2 - ln1)
               ELSE IF dd /\ fn1 = ln1 THEN oi2 ELSE fn1
      ln2   == IF dd THEN argc ELSE ln1
      oi3   == IF dd THEN argc ELSE oi1
      atEnd == oi3 = argc
  IN  [ argv         |-> av2,
        optind       |-> IF atEnd /\ fn2 # ln2 THEN fn2 ELSE oi3,
        first_nonopt |-> fn2,
        last_nonopt  |-> ln2,
        nextchar     |-> IF atEnd THEN 0 ELSE IF av2[oi3][2] = "-" THEN 3 ELSE 2,
        end          |-> atEnd ]

\* decoding of a long option "--name" or "--name=value" at argv[optind]
LongOption(g, e) ==
  LET argc    == Len(e.argv) + 1
      tok     == e.argv[e.optind]
      nameend == IndexOf(tok, "=", e.nextchar)
      name    == SubSeq(tok, e.nextchar, nameend - 1)
      matches == {k \in 1..Len(kOptions) : IsPrefix(name, kOptions[k].name)}
      exact   == {k \in matches : Len(kOptions[k].name) = Len(name)}
      first   == CHOOSE k \in matches : \A m \in matches : k <= m
      ambig   == \E k \in matches : kOptions[k].has_arg # kOptions[first].has_arg
                                    \/ kOptions[k].val # kOptions[first].val
      found   == IF exact # {} THEN CHOOSE k \in exact : \A m \in exact : k <= m ELSE first
      p       == kOptions[found]
      hasEq   == nameend <= Len(tok)
      fail    == [ argv |-> e.argv, optind |-> e.optind + 1, nextchar |-> 0,
                   first_nonopt |-> e.first_nonopt, last_nonopt |-> e.last_nonopt,
                   optarg |-> << >>, option_index |-> g.option_index, c |-> "?" ]
      okay(arg, oi) ==
                 [ argv |-> e.argv, optind |-> oi, nextchar |-> 0,
                   first_nonopt |-> e.first_nonopt, last_nonopt |-> e.last_nonopt,
                   optarg |-> arg, option_index |-> found - 1, c |-> p.val ]
  IN  IF matches = {} \/ (ambig /\ exact = {}) THEN fail
      ELSE IF hasEq
        THEN IF p.has_arg THEN okay(SubSeq(tok, nameend + 1, Len(tok)), e.optind + 1)
             ELSE fail
      ELSE IF p.has_arg
        THEN IF e.optind + 1 < argc THEN okay(e.argv[e.optind + 1], e.optind + 2)
             ELSE fail
      ELSE okay(<< >>, e.optind + 1)

\* decoding of the next character of a (cluster of) short option(s) at argv[optind]
ShortOption(g, e) ==
  LET argc    == Len(e.argv) + 1
      tok     == e.argv[e.optind]
      ch      == tok[e.nextchar]
      nc      == e.nextchar + 1
      atLast  == nc > Len(tok)
      oi      == IF atLast THEN e.optind + 1 ELSE e.optind
      pos     == IndexOf(optstring, ch, 1)
      known   == pos <= Len(optstring) /\ ch # ":" /\ ch # ";"
      takes   == known /\ pos < Len(optstring) /\ optstring[pos + 1] = ":"
      res(cc, arg, oi2, nc2) ==
                 [ argv |-> e.argv, optind |-> oi2, nextchar |-> nc2,
                   first_nonopt |-> e.first_nonopt, last_nonopt |-> e.last_nonopt,
                   optarg |-> arg, option_index |-> g.option_index, c |-> cc ]
  IN  IF ~known THEN res("?", << >>, oi, IF atLast THEN 0 ELSE nc)
      ELSE IF takes
        THEN IF ~atLast THEN res(ch, SubSeq(tok, nc, Len(tok)), oi + 1, 0)
             ELSE IF oi = argc THEN res("?", << >>, oi, 0)
             ELSE res(ch, e.argv[oi], oi + 1, 0)
      ELSE res(ch, << >>, oi, IF atLast THEN 0 ELSE nc)

\* one call of getopt_long on the getopt state g; c = "EOF" stands for -1
getopt_long(g) ==
  LET e == IF g.nextchar = 0
             THEN NextElement(g)
             ELSE [ argv |-> g.argv, optind |-> g.optind, first_nonopt |-> g.first_nonopt,
                    last_nonopt |-> g.last_nonopt, nextchar |-> g.nextchar, end |-> FALSE ]
  IN  IF e.end
        THEN [ argv |-> e.argv, optind |-> e.optind, nextchar |-> 0,
               first_nonopt |-> e.first_nonopt, last_nonopt |-> e.last_nonopt,
               optarg |-> << >>, option_index |-> g.option_index, c |-> "EOF" ]
      ELSE IF e.argv[e.optind][2] = "-" THEN LongOption(g, e)
      ELSE ShortOption(g, e)

(***************************************************************************)
(* The Qt conversions Parse uses.                                          *)
(***************************************************************************)
Digits == <<"0","1","2","3","4","5","6","7","8","9">>
IsDigit(ch) == IndexOf(Digits, ch, 1) <= Len(Digits)
DigitVal(ch) == IndexOf(Digits, ch, 1) - 1

\* the digits accumulated as a negative number, as strtoll-style parsers do so that
\* INT_MIN is representable; 1 stands for "out of the range of int"
RECURSIVE NegMagnitude(_, _)
NegMagnitude(s, acc) ==
  IF s = << >> THEN acc
  ELSE LET d == DigitVal(Head(s)) IN
       IF acc > -214748364 \/ (acc = -214748364 /\ d <= 8)
         THEN NegMagnitude(Tail(s), 10 * acc - d)
         ELSE 1

\* QString(optarg).toInt(&ok): an optional sign and decimal digits that fit an int;
\* otherwise ok is false and the value is 0
toInt(s) ==
  LET signed == Len(s) > 0 /\ s[1] \in {"-", "+"}
      minus  == signed /\ s[1] = "-"
      body   == IF signed THEN Tail(s) ELSE s
      valid  == Len(body) > 0 /\ \A k \in 1..Len(body) : IsDigit(body[k])
      neg    == IF valid THEN NegMagnitude(body, 0) ELSE 1
      fits   == neg <= 0 /\ (minus \/ neg >= -2147483647)
  IN  [ok |-> valid /\ fits,
       value |-> IF valid /\ fits THEN (IF minus THEN neg ELSE 0 - neg) ELSE 0]

\* value.contains("://")
ContainsSchemeSep(s) ==
  \E k \in 1..Len(s) : k + 2 <= Len(s) /\ SubSeq(s, k, k + 2) = <<":", "/", "/">>

\* the working directory of the process, which QFileInfo::absoluteFilePath prepends
CurrentDir == <<"/", "w">>

absoluteFilePath(s) ==
  IF Len(s) > 0 /\ s[1] = "/" THEN s ELSE CurrentDir \o <<"/">> \o s

\* QUrl::fromLocalFile(path), as the URL's text
fromLocalFile(path) == <<"f","i","l","e",":","/","/">> \o path

\* the entry the URL loop appends for argv_[i]
UrlOf(value) ==
  IF ContainsSchemeSep(value) THEN value ELSE fromLocalFile(absoluteFilePath(value))

(***************************************************************************)
(* Parse: the switch over the option getopt_long returned.                 *)
(***************************************************************************)
\* the assignment without the "if (!ok)" line that follows it
NumericOrSentinel_Unchecked(arg) == toInt(arg).value

\* x = QString(optarg).toInt(&ok); if (!ok) x = -1;
NumericOrSentinel(arg) == IF toInt(arg).ok THEN toInt(arg).value ELSE -1

\* case 'p' without its break: control falls into case 't'
PlayerCase_Fallthrough(o, cc) ==
  CASE cc = "p" -> [o EXCEPT !.player_action_ = Player_PlayPause]
    [] cc = "t" -> [o EXCEPT !.player_action_ = Player_PlayPause]
    [] cc = "u" -> [o EXCEPT !.player_action_ = Player_Pause]
    [] cc = "s" -> [o EXCEPT !.player_action_ = Player_Stop]
    [] cc = "r" -> [o EXCEPT !.player_action_ = Player_Previous]
    [] cc = "f" -> [o EXCEPT !.player_action_ = Player_Next]

PlayerCase(o, cc) ==
  CASE cc = "p" -> [o EXCEPT !.player_action_ = Player_Play]
    [] cc = "t" -> [o EXCEPT !.player_action_ = Player_PlayPause]
    [] cc = "u" -> [o EXCEPT !.player_action_ = Player_Pause]
    [] cc = "s" -> [o EXCEPT !.player_action_ = Player_Stop]
    [] cc = "r" -> [o EXCEPT !.player_action_ = Player_Previous]
    [] cc = "f" -> [o EXCEPT !.player_action_ = Player_Next]

\* case 'l' assigning the neighbouring member
UrlListCase_WrongField(o, cc) ==
  CASE cc = "a" -> [o EXCEPT !.url_list_action_ = UrlList_Append]
    [] cc = "l" -> [o EXCEPT !.player_action_   = UrlList_Load]

UrlListCase(o, cc) ==
  CASE cc = "a" -> [o EXCEPT !.url_list_action_ = UrlList_Append]
    [] cc = "l" -> [o EXCEPT !.url_list_action_ = UrlList_Load]

VolumeModifierCase(o, cc) ==
  CASE cc = "VolumeUp"   -> [o EXCEPT !.volume_modifier_ = 4]
    [] cc = "VolumeDown" -> [o EXCEPT !.volume_modifier_ = -4]

NumericCase(o, cc, arg) ==
  CASE cc = "v"      -> [o EXCEPT !.set_volume_    = NumericOrSentinel(arg)]
    [] cc = "SeekTo" -> [o EXCEPT !.seek_to_       = NumericOrSentinel(arg)]
    [] cc = "k"      -> [o EXCEPT !.play_track_at_ = NumericOrSentinel(arg)]

SwitchCase(o, cc, arg) ==
  CASE cc \in {"p", "t", "u", "s", "r", "f"} -> PlayerCase(o, cc)
    [] cc \in {"a", "l"}                     -> UrlListCase(o, cc)
    [] cc = "o"                              -> [o EXCEPT !.show_osd_ = TRUE]
    [] cc \in {"VolumeUp", "VolumeDown"}     -> VolumeModifierCase(o, cc)
    [] cc \in {"v", "SeekTo", "k"}           -> NumericCase(o, cc, arg)

FieldOptions ==
  {"p", "t", "u", "s", "r", "f", "a", "l", "o", "VolumeUp", "VolumeDown", "v", "SeekTo", "k"}

\* the values Parse returns
ReturnOnHelp == FALSE
ReturnOnError == FALSE
ReturnOnSuccess == TRUE

HelpText == "kHelpText"

\* the first index of the URL loop
FirstUrlIndex(oi) == oi + 1

(***************************************************************************)
(* The argument lists of the model.                                        *)
(***************************************************************************)
T_h == <<"-", "h">>
T_p == <<"-", "p">>
T_s == <<"-", "s">>
T_a == <<"-", "a">>
T_l == <<"-", "l">>
T_o == <<"-", "o">>
T_v == <<"-", "v">>
T_k == <<"-", "k">>
T_turf == <<"-", "t", "u", "r", "f">>
T_seek == <<"-","-","s","e","e","k","-","t","o">>
T_up == <<"-","-","v","o","l","u","m","e","-","u","p">>
T_down == <<"-","-","v","o","l","u","m","e","-","d","o","w","n">>
T_5 == <<"5">>
T_m5 == <<"-", "5">>
T_file == <<"a">>
T_remote == <<"x", ":", "/", "/">>
T_end == <<"-", "-">>
T_nope == <<"-", "-", "x">>

Tokens == {T_h, T_p, T_s, T_a, T_l, T_o, T_v, T_k, T_turf, T_seek, T_up, T_down,
           T_5, T_m5, T_file, T_remote, T_end, T_nope}

ArgLists == UNION {[1..n -> Tokens] : n \in 0..MaxArgs}

(***************************************************************************)
(* The state after CommandlineOptions(argc, argv), and Parse step by step. *)
(***************************************************************************)
Init ==
  /\ orig \in ArgLists
  /\ argv = orig
  /\ optind = 1
  /\ nextchar = 0
  /\ first_nonopt = 1
  /\ last_nonopt = 1
  /\ optarg = << >>
  /\ option_index = 0
  /\ c = "none"
  /\ i = 0
  /\ pc = "scan"
  /\ ret = FALSE
  /\ out = << >>
  /\ opts = DefaultOptions
  /\ buf = << >>
  /\ wire = << >>
  /\ dst = DefaultOptions
  /\ status = "Ok"

G == [ argv |-> argv, optind |-> optind, nextchar |-> nextchar,
       first_nonopt |-> first_nonopt, last_nonopt |-> last_nonopt,
       option_index |-> option_index ]

\* the effect of the call of getopt_long on the variables it owns
Getopt(r) ==
  /\ argv' = r.argv
  /\ optind' = r.optind
  /\ nextchar' = r.nextchar
  /\ first_nonopt' = r.first_nonopt
  /\ last_nonopt' = r.last_nonopt
  /\ optarg' = r.optarg
  /\ option_index' = r.option_index
  /\ c' = r.c

\* c == -1: leave the loop; the URL loop starts at option_index + 1
ScanEnd ==
  /\ pc = "scan"
  /\ LET r == getopt_long(G) IN
       /\ r.c = "EOF"
       /\ Getopt(r)
       /\ i' = FirstUrlIndex(r.option_index)
  /\ pc' = "urls"
  /\ UNCHANGED <<orig, ret, out, opts, codecVars>>

\* case 'h' ending in break instead of return: the loop goes on
ScanHelp_Break ==
  /\ pc = "scan"
  /\ LET r == getopt_long(G) IN
       /\ r.c = "h"
       /\ Getopt(r)
  /\ out' = Append(out, HelpText)
  /\ pc' = "scan"
  /\ UNCHANGED <<orig, i, ret, opts, codecVars>>

\* case 'h': write the help text and return false
ScanHelp ==
  /\ pc = "scan"
  /\ LET r == getopt_long(G) IN
       /\ r.c = "h"
       /\ Getopt(r)
  /\ out' = Append(out, HelpText)
  /\ ret' = ReturnOnHelp
  /\ pc' = "done"
  /\ UNCHANGED <<orig, i, opts, codecVars>>

\* case '?' and default: return false
ScanError ==
  /\ pc = "scan"
  /\ LET r == getopt_long(G) IN
       /\ r.c \notin FieldOptions \cup {"h", "EOF"}
       /\ Getopt(r)
  /\ ret' = ReturnOnError
  /\ pc' = "done"
  /\ UNCHANGED <<orig, i, out, opts, codecVars>>

\* every other case: store into the option's field and go round the loop
ScanOption ==
  /\ pc = "scan"
  /\ LET r == getopt_long(G) IN
       /\ r.c \in FieldOptions
       /\ Getopt(r)
       /\ opts' = SwitchCase(opts, r.c, r.optarg)
  /\ pc' = "scan"
  /\ UNCHANGED <<orig, i, ret, out, codecVars>>

\* one iteration of the loop over argv_[option_index+1 .. argc_-1]
CollectUrl ==
  /\ pc = "urls"
  /\ i < Len(argv) + 1
  /\ opts' = [opts EXCEPT !.urls_ = Append(@, UrlOf(argv[i]))]
  /\ i' = i + 1
  /\ UNCHANGED <<orig, getoptVars, c, pc, ret, out, codecVars>>

\* the loop is over: return true
ParseReturn ==
  /\ pc = "urls"
  /\ ~(i < Len(argv) + 1)
  /\ ret' = ReturnOnSuccess
  /\ pc' = "done"
  /\ UNCHANGED <<orig, getoptVars, c, i, out, opts, codecVars>>

Next == ScanEnd \/ ScanHelp \/ ScanError \/ ScanOption \/ CollectUrl \/ ParseReturn

Spec == Init /\ [][Next]_vars

\* bool CommandlineOptions::is_empty() const
is_empty(o) ==
  /\ o.player_action_ = Player_None
  /\ o.set_volume_ = -1
  /\ o.volume_modifier_ = 0
  /\ o.seek_to_ = -1
  /\ o.play_track_at_ = -1
  /\ o.show_osd_ = FALSE
  /\ o.urls_ = << >>

(***************************************************************************)
(* QDataStream's encoding of the fields operator<< writes: big-endian      *)
(* two's complement for the 32-bit integers, one byte for the bool, and    *)
(* for the QList<QUrl> a 32-bit count followed by each URL's toEncoded()   *)
(* as a QByteArray (32-bit length, then the bytes).                        *)
(***************************************************************************)
AsciiFrom45 == <<"-", ".", "/", "0", "1", "2", "3", "4", "5", "6", "7", "8", "9", ":">>
AsciiFrom97 == <<"a", "b", "c", "d", "e", "f", "g", "h", "i", "j", "k", "l", "m",
                 "n", "o", "p", "q", "r", "s", "t", "u", "v", "w", "x", "y", "z">>

\* the byte of a character of an encoded URL (none of these is percent-encoded)
Ord(ch) ==
  IF IndexOf(AsciiFrom45, ch, 1) <= Len(AsciiFrom45)
    THEN 44 + IndexOf(AsciiFrom45, ch, 1)
    ELSE 96 + IndexOf(AsciiFrom97, ch, 1)

Chr(b) == IF b < 97 THEN AsciiFrom45[b - 44] ELSE AsciiFrom97[b - 96]

toEncoded(url) == [k \in 1..Len(url) |-> Ord(url[k])]
fromEncoded(bytes) == [k \in 1..Len(bytes) |-> Chr(bytes[k])]

WriteInt32(v) ==
  << (v \div 16777216) % 256, (v \div 65536) % 256, (v \div 256) % 256, v % 256 >>

WriteBool(b) == << IF b THEN 1 ELSE 0 >>

WriteByteArray(bytes) == WriteInt32(Len(bytes)) \o bytes

RECURSIVE WriteUrls(_)
WriteUrls(us) ==
  IF us = << >> THEN << >>
  ELSE WriteByteArray(toEncoded(Head(us))) \o WriteUrls(Tail(us))

\* operator<< writing seek_to_ and play_track_at_ in the other order than operator>> reads
Encode_Swapped(a) ==
  WriteInt32(a.player_action_)
    \o WriteInt32(a.url_list_action_)
    \o WriteInt32(a.set_volume_)
    \o WriteInt32(a.volume_modifier_)
    \o WriteInt32(a.play_track_at_)
    \o WriteInt32(a.seek_to_)
    \o WriteBool(a.show_osd_)
    \o WriteInt32(Len(a.urls_)) \o WriteUrls(a.urls_)

\* QDataStream& operator<<(QDataStream& s, const CommandlineOptions& a)
Encode(a) ==
  WriteInt32(a.player_action_)
    \o WriteInt32(a.url_list_action_)
    \o WriteInt32(a.set_volume_)
    \o WriteInt32(a.volume_modifier_)
    \o WriteInt32(a.seek_to_)
    \o WriteInt32(a.play_track_at_)
    \o WriteBool(a.show_osd_)
    \o WriteInt32(Len(a.urls_)) \o WriteUrls(a.urls_)

(***************************************************************************)
(* QDataStream's decoding.  A reader is the bytes, the position of the     *)
(* next byte (1-based) and the stream's status.  A read that finds too few *)
(* bytes consumes what is left, yields 0 (an empty array) and sets the     *)
(* status to ReadPastEnd; later reads are still attempted.                 *)
(***************************************************************************)
Remaining(rd) == Len(rd.bytes) - rd.pos + 1

PastEnd(rd) == [rd EXCEPT !.pos = Len(rd.bytes) + 1, !.status = "ReadPastEnd"]

Signed8(b) == IF b >= 128 THEN b - 256 ELSE b

ReadInt32(rd) ==
  IF Remaining(rd) >= 4
    THEN [ value |-> Signed8(rd.bytes[rd.pos]) * 16777216 + rd.bytes[rd.pos + 1] * 65536
                       + rd.bytes[rd.pos + 2] * 256 + rd.bytes[rd.pos + 3],
           rd    |-> [rd EXCEPT !.pos = @ + 4] ]
    ELSE [ value |-> 0, rd |-> PastEnd(rd) ]

ReadBool(rd) ==
  IF Remaining(rd) >= 1
    THEN [ value |-> rd.bytes[rd.pos] # 0, rd |-> [rd EXCEPT !.pos = @ + 1] ]
    ELSE [ value |-> FALSE, rd |-> PastEnd(rd) ]

ReadByteArray(rd) ==
  LET n == ReadInt32(rd) IN
    IF n.value = -1 THEN [ value |-> << >>, rd |-> n.rd ]
    ELSE IF Remaining(n.rd) >= n.value
      THEN [ value |-> SubSeq(n.rd.bytes, n.rd.pos, n.rd.pos + n.value - 1),
             rd    |-> [n.rd EXCEPT !.pos = @ + n.value] ]
      ELSE [ value |-> << >>, rd |-> PastEnd(n.rd) ]

\* the loop of QList's operator>>: read an element, append it, stop at the end of the data
RECURSIVE ReadUrlElements(_, _, _)
ReadUrlElements(rd, count, acc) ==
  IF count <= 0 THEN [ value |-> acc, rd |-> rd ]
  ELSE LET u   == ReadByteArray(rd)
           lst == Append(acc, fromEncoded(u.value))
       IN  IF Remaining(u.rd) <= 0 THEN [ value |-> lst, rd |-> u.rd ]
           ELSE ReadUrlElements(u.rd, count - 1, lst)

ReadUrls(rd) ==
  LET n == ReadInt32(rd) IN ReadUrlElements(n.rd, n.value, << >>)

\* QDataStream& operator>>(QDataStream& s, CommandlineOptions& a); every field of a is
\* assigned, whatever the status of the stream
Decode(bytes) ==
  LET r0 == [bytes |-> bytes, pos |-> 1, status |-> "Ok"]
      f1 == ReadInt32(r0)
      f2 == ReadInt32(f1.rd)
      f3 == ReadInt32(f2.rd)
      f4 == ReadInt32(f3.rd)
      f5 == ReadInt32(f4.rd)
      f6 == ReadInt32(f5.rd)
      f7 == ReadBool(f6.rd)
      f8 == ReadUrls(f7.rd)
  IN  [ a |-> [ player_action_   |-> f1.value,
                url_list_action_ |-> f2.value,
                set_volume_      |-> f3.value,
                volume_modifier_ |-> f4.value,
                seek_to_         |-> f5.value,
                play_track_at_   |-> f6.value,
                show_osd_        |-> f7.value,
                urls_            |-> f8.value ],
        status |-> f8.rd.status ]

(***************************************************************************)
(* Serialize on one instance, Load on another: the option values are drawn *)
(* from values Parse stores, the received bytes are what Serialize         *)
(* returned or a proper prefix of it.                                      *)
(***************************************************************************)
U_remote == UrlOf(T_remote)
U_local == UrlOf(T_file)

UrlLists == UNION {[1..n -> {U_remote, U_local}] : n \in 0..MaxUrls}

OptionValues ==
  [ url_list_action_ : {UrlList_Append, UrlList_Load},
    player_action_   : {Player_None, Player_Play, Player_Next},
    set_volume_      : {-1, 5, -5},
    volume_modifier_ : {0, 4, -4},
    seek_to_         : {-1, 300},
    play_track_at_   : {-1, 0},
    show_osd_        : BOOLEAN,
    urls_            : UrlLists ]

CodecInit ==
  /\ opts \in OptionValues
  /\ pc = "serialize"
  /\ buf = << >>
  /\ wire = << >>
  /\ dst = DefaultOptions
  /\ status = "Ok"
  /\ orig = << >>
  /\ argv = << >>
  /\ optind = 1
  /\ nextchar = 0
  /\ first_nonopt = 1
  /\ last_nonopt = 1
  /\ optarg = << >>
  /\ option_index = 0
  /\ c = "none"
  /\ i = 0
  /\ ret = TRUE
  /\ out = << >>

parseVars == <<orig, getoptVars, c, i, ret, out>>

\* QByteArray CommandlineOptions::Serialize() const
Serialize ==
  /\ pc = "serialize"
  /\ buf' = Encode(opts)
  /\ pc' = "transfer"
  /\ UNCHANGED <<parseVars, opts, wire, dst, status>>

\* the transport delivers the bytes unmodified
Deliver ==
  /\ pc = "transfer"
  /\ wire' = buf
  /\ pc' = "load"
  /\ UNCHANGED <<parseVars, opts, buf, dst, status>>

\* the transport delivers a proper prefix of the bytes
DeliverTruncated ==
  /\ pc = "transfer"
  /\ \E n \in 0..(Len(buf) - 1) : wire' = SubSeq(buf, 1, n)
  /\ pc' = "load"
  /\ UNCHANGED <<parseVars, opts, buf, dst, status>>

\* void CommandlineOptions::Load(const QByteArray &serialized), on a fresh instance
Load ==
  /\ pc = "load"
  /\ LET d == Decode(wire) IN
       /\ dst' = d.a
       /\ status' = d.status
  /\ pc' = "loaded"
  /\ UNCHANGED <<parseVars, opts, buf, wire>>

CodecNext == Serialize \/ Deliver \/ DeliverTruncated \/ Load

CodecSpec == CodecInit /\ [][CodecNext]_vars

(***************************************************************************)
(* The grammar of the command line, read left to right from the argument   *)
(* list as it was passed: which elements are flags, which are the values   *)
(* of value-taking flags and which are positional ("--" ends the flags and  *)
(* is itself neither).  The properties below                               *)
(* compare what Parse stored with what this reading expects.               *)
(***************************************************************************)
PlayerActionOf ==
  ("p" :> Player_Play) @@ ("t" :> Player_PlayPause) @@ ("u" :> Player_Pause)
    @@ ("s" :> Player_Stop) @@ ("r" :> Player_Previous) @@ ("f" :> Player_Next)

UrlListActionOf == ("a" :> UrlList_Append) @@ ("l" :> UrlList_Load)

VolumeModifierOf == ("VolumeUp" :> 4) @@ ("VolumeDown" :> -4)

ValueFlags == {"v", "SeekTo", "k"}

\* the flags an element spells; << >> for an element that is not a flag
FlagsOfToken(t) ==
  CASE t = T_h    -> <<"h">>
    [] t = T_p    -> <<"p">>
    [] t = T_s    -> <<"s">>
    [] t = T_a    -> <<"a">>
    [] t = T_l    -> <<"l">>
    [] t = T_o    -> <<"o">>
    [] t = T_v    -> <<"v">>
    [] t = T_k    -> <<"k">>
    [] t = T_turf -> <<"t", "u", "r", "f">>
    [] t = T_seek -> <<"SeekTo">>
    [] t = T_up   -> <<"VolumeUp">>
    [] t = T_down -> <<"VolumeDown">>
    [] t = T_m5   -> <<"unrecognized">>
    [] t = T_nope -> <<"unrecognized">>
    [] OTHER      -> << >>

\* the integer an element denotes, if it denotes one
IsIntegerToken(t) == t \in {T_5, T_m5}
IntegerOfToken(t) == IF t = T_5 THEN 5 ELSE -5

Item(kind, f, arg) == [kind |-> kind, f |-> f, arg |-> arg]

RECURSIVE Items(_)
Items(args) ==
  IF args = << >> THEN << >>
  ELSE LET t == Head(args)
           F == FlagsOfToken(t)
       IN  IF t = T_end
             THEN [k \in 1..(Len(args) - 1) |-> Item("positional", "", args[k + 1])]
           ELSE IF F = << >> THEN <<Item("positional", "", t)>> \o Items(Tail(args))
           ELSE IF F[1] \in ValueFlags
             THEN IF Len(args) >= 2
                    THEN <<Item("flag", F[1], args[2])>> \o Items(Tail(Tail(args)))
                    ELSE <<Item("flag", "missing-argument", << >>)>>
           ELSE [k \in 1..Len(F) |-> Item("flag", F[k], << >>)] \o Items(Tail(args))

IsFlagItem(it) == it.kind = "flag"
IsPositionalItem(it) == it.kind = "positional"

FlagItems(args) == SelectSeq(Items(args), IsFlagItem)
Positionals(args) ==
  LET P == SelectSeq(Items(args), IsPositionalItem) IN [k \in 1..Len(P) |-> P[k].arg]

\* the position of the rightmost flag of the set S, 0 if there is none
Rightmost(F, S) ==
  LET at == {k \in 1..Len(F) : F[k].f \in S}
  IN  IF at = {} THEN 0 ELSE CHOOSE k \in at : \A m \in at : m <= k

ExpectedPlayerAction(args) ==
  LET F == FlagItems(args)
      k == Rightmost(F, DOMAIN PlayerActionOf)
  IN  IF k = 0 THEN Player_None ELSE PlayerActionOf[F[k].f]

ExpectedUrlListAction(args) ==
  LET F == FlagItems(args)
      k == Rightmost(F, DOMAIN UrlListActionOf)
  IN  IF k = 0 THEN UrlList_Append ELSE UrlListActionOf[F[k].f]

ExpectedVolumeModifier(args) ==
  LET F == FlagItems(args)
      k == Rightmost(F, DOMAIN VolumeModifierOf)
  IN  IF k = 0 THEN 0 ELSE VolumeModifierOf[F[k].f]

ExpectedNumeric(args, f) ==
  LET F == FlagItems(args)
      k == Rightmost(F, {f})
  IN  IF k = 0 THEN -1
      ELSE IF IsIntegerToken(F[k].arg) THEN IntegerOfToken(F[k].arg) ELSE -1

ExpectedShowOsd(args) == Rightmost(FlagItems(args), {"o"}) # 0

\* no help flag, no unrecognized flag, no value-taking flag without its value
WellFormed(args) ==
  \A k \in 1..Len(FlagItems(args)) :
     FlagItems(args)[k].f \notin {"h", "unrecognized", "missing-argument"}

HasMalformedNumeric(args) ==
  \E k \in 1..Len(FlagItems(args)) :
     FlagItems(args)[k].f \in ValueFlags /\ ~IsIntegerToken(FlagItems(args)[k].arg)

FirstFlagIsHelp(args) == FlagItems(args) # << >> /\ FlagItems(args)[1].f = "h"

OnlyActionFlags(args) ==
  \A k \in 1..Len(args) : args[k] \in {T_p, T_s, T_turf, T_a, T_l}

\* every flag supplied is a no-op: the flags leave every field at its default
OnlyNoOps(args) ==
  /\ ExpectedPlayerAction(args) = Player_None
  /\ ExpectedUrlListAction(args) = UrlList_Append
  /\ ExpectedVolumeModifier(args) = 0
  /\ ExpectedNumeric(args, "v") = -1
  /\ ExpectedNumeric(args, "SeekTo") = -1
  /\ ExpectedNumeric(args, "k") = -1
  /\ ~ExpectedShowOsd(args)

Succeeded == pc = "done" /\ ret = ReturnOnSuccess

(***************************************************************************)
(* Properties of Parse (specification Spec).                               *)
(***************************************************************************)

\* C1: whenever Parse succeeds, urls holds exactly one entry per positional argument
\* of the argument list, in the order of the positionals, and nothing else.
C1_UrlsArePositionals ==
  Succeeded =>
    opts.urls_ = [k \in 1..Len(Positionals(orig)) |-> UrlOf(Positionals(orig)[k])]

\* C3: after a successful Parse, player_action is the action of the rightmost
\* player-action flag (None without one) and url_list_action that of the rightmost
\* of -a/-l (Append without one); lists of such flags alone never fail.
C3_LastFlagWins ==
  pc = "done" =>
    /\ ret = ReturnOnSuccess =>
         /\ opts.player_action_ = ExpectedPlayerAction(orig)
         /\ opts.url_list_action_ = ExpectedUrlListAction(orig)
    /\ OnlyActionFlags(orig) => ret = ReturnOnSuccess

C3_Witness ==
  /\ Succeeded
  /\ orig = <<T_p, T_l, T_s>>
  /\ opts.player_action_ = Player_Stop
  /\ opts.url_list_action_ = UrlList_Load

\* C4: set_volume, seek_to and play_track_at are each a non-negative integer or
\* exactly -1, in every state of Parse.
C4_NumericNonNegativeOrSentinel ==
  /\ opts.set_volume_ >= -1
  /\ opts.seek_to_ >= -1
  /\ opts.play_track_at_ >= -1

\* C5: when Parse ends on an unrecognized flag or on a missing argument, what it
\* returns differs from what it returns for -h/--help.
C5_ErrorDistinctFromHelp ==
  (pc = "done" /\ c \notin FieldOptions \cup {"h", "EOF"}) => ret # ReturnOnHelp

\* C6: when the first flag of the argument list is the help flag, Parse writes the
\* help text, returns at once with the help outcome and never changes a field: no
\* later flag takes effect and no positional reaches urls.
C6_HelpShortCircuits ==
  FirstFlagIsHelp(orig) =>
    /\ opts = DefaultOptions
    /\ pc \in {"scan", "done"}
    /\ pc = "done" => (ret = ReturnOnHelp /\ out = <<HelpText>> /\ c = "h")
    /\ pc = "scan" => out = << >>

C6_Witness ==
  /\ pc = "done"
  /\ orig = <<T_file, T_h, T_p>>
  /\ out = <<HelpText>>
  /\ opts.player_action_ = Player_None
  /\ opts.urls_ = << >>

\* C7: a value-taking flag whose value is not an integer does not fail the parse:
\* on an otherwise well-formed argument list Parse succeeds, the field of that flag
\* is -1 (unless a later occurrence sets it), and every other flag has its effect.
C7_SentinelRecovery ==
  (pc = "done" /\ WellFormed(orig) /\ HasMalformedNumeric(orig)) =>
    /\ ret = ReturnOnSuccess
    /\ opts.set_volume_ = ExpectedNumeric(orig, "v")
    /\ opts.seek_to_ = ExpectedNumeric(orig, "SeekTo")
    /\ opts.play_track_at_ = ExpectedNumeric(orig, "k")
    /\ opts.player_action_ = ExpectedPlayerAction(orig)
    /\ opts.url_list_action_ = ExpectedUrlListAction(orig)
    /\ opts.volume_modifier_ = ExpectedVolumeModifier(orig)
    /\ opts.show_osd_ = ExpectedShowOsd(orig)

C7_Witness ==
  /\ Succeeded
  /\ orig = <<T_v, T_file, T_p>>
  /\ opts.set_volume_ = -1
  /\ opts.player_action_ = Player_Play

\* C8: after a successful Parse of flags without positional arguments, is_empty()
\* is true iff only no-op flags were supplied, and false as soon as any of the
\* eight fields deviates from its default.
C8_EmptyIffNoEffect ==
  (Succeeded /\ Positionals(orig) = << >>) =>
    /\ is_empty(opts) <=> OnlyNoOps(orig)
    /\ opts # DefaultOptions => ~is_empty(opts)

\* C10: a step of the scan loop changes at most the field of the flag it returned
\* and none for help, an error or the end of the options; it never changes urls,
\* and volume_modifier is always 0, +4 or -4.
AllowedField ==
  [f \in DOMAIN PlayerActionOf |-> "player_action_"]
    @@ [f \in DOMAIN UrlListActionOf |-> "url_list_action_"]
    @@ [f \in DOMAIN VolumeModifierOf |-> "volume_modifier_"]
    @@ ("v" :> "set_volume_") @@ ("SeekTo" :> "seek_to_") @@ ("k" :> "play_track_at_")
    @@ ("o" :> "show_osd_")

ChangedFields(o1, o2) == {f \in DOMAIN o1 : o1[f] # o2[f]}

C10_ScanStepFrame ==
  [][ pc = "scan" =>
        /\ c' \in DOMAIN AllowedField => ChangedFields(opts, opts') \subseteq {AllowedField[c']}
        /\ c' \notin DOMAIN AllowedField => opts' = opts
        /\ opts'.urls_ = opts.urls_
        /\ opts'.volume_modifier_ \in {0, 4, -4} ]_vars

C10_Witness ==
  /\ pc = "scan"
  /\ orig = <<T_p, T_down, T_l>>
  /\ c = "l"
  /\ opts.player_action_ = Player_Play
  /\ opts.volume_modifier_ = -4
  /\ opts.url_list_action_ = UrlList_Load
  /\ opts.urls_ = << >>

(***************************************************************************)
(* Properties of Serialize and Load (specification CodecSpec).             *)
(***************************************************************************)

\* C2: Load of the bytes Serialize returned, into a default-constructed object,
\* yields the serialized object in all eight fields.
C2_RoundTrip ==
  (pc = "loaded" /\ wire = buf) =>
    /\ dst.player_action_ = opts.player_action_
    /\ dst.url_list_action_ = opts.url_list_action_
    /\ dst.set_volume_ = opts.set_volume_
    /\ dst.volume_modifier_ = opts.volume_modifier_
    /\ dst.seek_to_ = opts.seek_to_
    /\ dst.play_track_at_ = opts.play_track_at_
    /\ dst.show_osd_ = opts.show_osd_
    /\ Len(dst.urls_) = Len(opts.urls_)
    /\ \A k \in 1..Len(opts.urls_) : dst.urls_[k] = opts.urls_[k]

C2_Witness ==
  /\ pc = "loaded"
  /\ wire = buf
  /\ dst.set_volume_ = -5
  /\ dst.seek_to_ = 300
  /\ dst.play_track_at_ = -1
  /\ dst.volume_modifier_ = -4
  /\ dst.urls_ = <<U_local, U_remote>>

\* C9: Load of a proper prefix of the serialized bytes fails as a whole: the
\* object it was called on keeps its state, none of its fields is overwritten.
C9_TruncatedLoadLeavesTarget ==
  (pc = "loaded" /\ wire # buf) => dst = DefaultOptions

====
